---- MODULE Spec2Model ----
(***************************************************************************)
(* A model of the request-throttling and pagination engine of the openFDA  *)
(* client (src/src/openfda_python/openfda_client.py):                      *)
(*   RateLimiter        the token bucket guarding the per-minute rate      *)
(*   DailyQuotaLimiter  the daily quota that resets at midnight UTC        *)
(*   FDAClient._build_params   the translation of a query to parameters    *)
(*   FDAClient.api_search      the two-phase pagination run                *)
(* and of the query validation of src/src/openfda_python/models.py.        *)
(*                                                                         *)
(* Optional values (Python's None) are sequences of length 0 or 1.         *)
(* Strings are sequences of one-character strings, so that str.replace is  *)
(* computed and not assumed.  A parameter map is a function whose DOMAIN   *)
(* is the set of keys present.                                             *)
(***************************************************************************)
EXTENDS Integers, Sequences, FiniteSets, TLC

\* ---------------------------------------------------------------- values

None == <<>>
Some(x) == <<x>>
IsNone(o) == o = <<>>
Val(o) == o[1]

\* Python truthiness of an Optional[str]: None and "" are falsy.
StrTruthy(o) == (~IsNone(o)) /\ Len(Val(o)) > 0

\* Python truthiness of an Optional[int]: None and 0 are falsy.
IntTruthy(o) == (~IsNone(o)) /\ Val(o) # 0

Min2(a, b) == IF a <= b THEN a ELSE b

\* str.replace(ch, rep) for a one-character ch: every occurrence, left to right.
RECURSIVE StrReplace(_, _, _)
StrReplace(s, ch, rep) ==
    IF s = <<>> THEN <<>>
    ELSE (IF Head(s) = ch THEN rep ELSE <<Head(s)>>) \o StrReplace(Tail(s), ch, rep)

EmptyMap == [k \in {} |-> 0]

\* ------------------------------------------------------ program constants

\* the page size of one request and the service's default limit
PageMax == 1000
\* the largest offset the offset mode uses
OffsetCeiling == 25000
\* query.limit or 1000
DefaultLimit == 1000
\* the limit that _build_params leaves out of the parameter map
OmittedLimit == 1000
\* limit = -1 asks for every record
UnlimitedSentinel == -1
\* validate_skip rejects a skip above this
MaxUserSkip == 25000

\* remaining is a number or float('inf'), the unlimited mode's remaining count
Inf == [inf |-> TRUE, n |-> 0]
Fin(n) == [inf |-> FALSE, n |-> n]
IsInf(r) == r.inf
\* remaining > 0
RemPositive(r) == IsInf(r) \/ r.n > 0
\* min(remaining, n) for an integer n
RemMin(r, n) == IF IsInf(r) THEN n ELSE Min2(r.n, n)
\* remaining - n
RemMinus(r, n) == IF IsInf(r) THEN Inf ELSE Fin(r.n - n)

\* ------------------------------------------------- models.py: validation

\* validate_limit: raises for limit < -1 and for limit = 0
validate_limit(limit) ==
    ~((~IsNone(limit)) /\ Val(limit) < -1) /\ ~(limit = Some(0))

\* validate_skip: raises for skip < 0 and for skip > 25000
validate_skip(skip) ==
    ~((~IsNone(skip)) /\ (Val(skip) < 0 \/ Val(skip) > MaxUserSkip))

\* sort.split(':')[1], for a sort that holds a ':'
RECURSIVE UpToColon(_)
UpToColon(s) ==
    IF s = <<>> \/ Head(s) = ":" THEN <<>> ELSE <<Head(s)>> \o UpToColon(Tail(s))

RECURSIVE AfterColon(_)
AfterColon(s) ==
    IF s = <<>> THEN <<>> ELSE IF Head(s) = ":" THEN Tail(s) ELSE AfterColon(Tail(s))

HasColon(s) == \E i \in 1..Len(s) : s[i] = ":"

\* validate_sort: a sort with a ':' must name the order asc or desc
validate_sort(sort) ==
    (~IsNone(sort) /\ HasColon(Val(sort)))
        => UpToColon(AfterColon(Val(sort))) \in {<<"a", "s", "c">>, <<"d", "e", "s", "c">>}

\* BaseQuery.__post_init__: the query objects that can be constructed
ValidQuery(q) == validate_limit(q.limit) /\ validate_skip(q.skip) /\ validate_sort(q.sort)

\* --------------------------------------------- FDAClient._build_params

AddSearch(p, q) ==
    IF StrTruthy(q.search)
    THEN p @@ ("search" :> StrReplace(Val(q.search), " ", <<"+">>))
    ELSE p

\* a mutant of AddSort: the sort is passed as it is
AddSort_AsIs(p, q) == IF StrTruthy(q.sort) THEN p @@ ("sort" :> Val(q.sort)) ELSE p


AddSort(p, q) ==
    IF StrTruthy(q.sort)
    THEN p @@ ("sort" :> StrReplace(Val(q.sort), " ", <<>>))
    ELSE p

AddCount(p, q) ==
    IF StrTruthy(q.count)
    THEN p @@ ("count" :> StrReplace(Val(q.count), " ", <<"+">>))
    ELSE p

\* limit if limit is not None else query.limit
EffectiveLimit(q, limit) == IF ~IsNone(limit) THEN limit ELSE q.limit

\* skip if skip is not None else query.skip
EffectiveSkip(q, skip) == IF ~IsNone(skip) THEN skip ELSE q.skip

AddLimit(p, eff) ==
    IF (~IsNone(eff)) /\ Val(eff) # OmittedLimit THEN p @@ ("limit" :> Val(eff)) ELSE p

AddSkip(p, eff) ==
    IF (~IsNone(eff)) /\ Val(eff) > 0 THEN p @@ ("skip" :> Val(eff)) ELSE p

\* _build_params(query, limit, skip); limit and skip are Optional overrides
build_params(q, limit, skip) ==
    AddSkip(AddLimit(AddCount(AddSort(AddSearch(EmptyMap, q), q), q),
                     EffectiveLimit(q, limit)),
            EffectiveSkip(q, skip))

\* the limit a request asks the service for: the service's default when the
\* parameter map carries none
RequestLimit(p) == IF "limit" \in DOMAIN p THEN p["limit"] ELSE PageMax

\* ------------------------------------------------------------ the bounds

\* the callers (threads) that share one limiter
NumCallers == 2
\* RateLimiter.max_requests ranges over 1..MaxCapacity
MaxCapacity == 2
\* the clock's resolution: ticks in which the bucket gains one token, so that
\* time_window = max_requests * TicksPerToken ticks and every sleep_time the
\* code computes is a whole number of ticks
TicksPerToken == 2
\* DailyQuotaLimiter.max_requests ranges over 1..MaxDailyCap
MaxDailyCap == 2
\* the length of a day (datetime.timedelta(days=1)) in ticks
DayTicks == 4
\* the host's local time is UTC + tz, tz in -MaxTzOffset..MaxTzOffset ticks
MaxTzOffset == 1
\* the clock of the limiter specifications stops here
MaxTime == 9
\* where every call must return, calls are started up to this time
LastCall == 1
\* the api_search calls made one after another on one client
MaxRuns == 3

Callers == 1..NumCallers

\* ------------------------------------------------------------- the state

VARIABLES
    \* the clock: time.time(), in ticks since the epoch
    now,
    \* datetime's local zone: local time = UTC + tz
    tz,
    \* RateLimiter: max_requests, time_window, tokens (in units of
    \* 1/TicksPerToken of a token), last_update, and the holder of lock (0: free)
    max_requests, time_window, tokens, last_update, b_lock,
    \* history: the time at which the RateLimiter was constructed
    b_created,
    \* DailyQuotaLimiter: max_requests, requests_made, reset_time, holder of lock
    d_max_requests, requests_made, reset_time, d_lock,
    \* each caller's position and the end of its sleep
    tpc, t_wake,
    \* history: the times at which RateLimiter.acquire returned, and the number
    \* of DailyQuotaLimiter.acquire calls that returned since the last reset
    grant_log, d_granted,
    \* history: the requests sent since the last reset of the daily counter
    d_fetched,
    \* each caller's place in the fetch loop of its run, when runs share a client
    stage,
    \* api_search: the position of the run, the caller's query, and the locals
    \* user_skip, current_skip, remaining, total_available, len(all_results),
    \* batch_size and params (the parameter map of the next request)
    pc, query, user_skip, current_skip, remaining, total_available, nresults,
    batch_size, params,
    \* how the call ended, and the QueryResult it returned
    outcome, result,
    \* the service: the size of the dataset the query matches
    svc_total,
    \* history of the run: whether every response so far was the faithful one,
    \* the requests sent, the pagination mode and its changes, the warning
    \* logged, and the fetch count and record count at the first empty page
    svc_faithful, nfetch, mode, switches, switch_skip, warned, empty_at,
    \* history: the number of the fetch that failed, if one did
    failed_at,
    \* history: the limiters whose acquire() returned since the last fetch, in order
    since_fetch,
    \* history: the total that the first successful page of the run reported
    first_total,
    \* history: the total that the latest successful page of the offset mode reported
    last_total,
    \* why the run left its loop: the break or the loop test that ended the paging
    stop,
    \* all_results: the documents held, in order, as runs [from, to] of consecutive pages, each page standing for the documents of one response in the order the service gave them
    all_results,
    \* the requests the service has answered with a page of at least one document
    served,
    \* the total reported by the latest page fetched, of either mode
    page_total,
    \* the Link header of the latest page of the cursor mode
    page_link,
    \* _build_params called on its own: the overrides given and the map built
    bp_args, bp_out,
    \* FDAClient.session: whether close() has been called on it
    closed,
    \* history: how the earlier api_search calls on this client ended, in order
    earlier

clockVars == <<now, tz>>
bucketVars == <<max_requests, time_window, tokens, last_update, b_lock, grant_log,
                b_created>>
dailyVars == <<d_max_requests, requests_made, reset_time, d_lock, d_granted,
               d_fetched>>
callerVars == <<tpc, t_wake, stage>>
runVars == <<pc, query, user_skip, current_skip, remaining, total_available, nresults,
             batch_size, params, outcome, result, svc_total, svc_faithful, nfetch,
             mode, switches, switch_skip, warned, empty_at,
             failed_at,
             since_fetch,
             first_total,
             last_total,
             stop,
             all_results,
             served,
             page_total,
             page_link>>
bpVars == <<bp_args, bp_out>>
sessionVars == <<closed, earlier>>

vars == <<clockVars, bucketVars, dailyVars, callerVars, runVars, bpVars, sessionVars>>

\* ---------------------------------------------------------- RateLimiter

\* one whole token, in the units of tokens
OneToken == TicksPerToken

\* min(max_requests, tokens + elapsed * max_requests / time_window)
Refilled(tok, elapsed) ==
    Min2(max_requests * OneToken,
         tok + (elapsed * max_requests * OneToken) \div time_window)

\* a mutant of BucketSleepTime: the wait for a token takes no time
BucketSleepTime_Zero(tok) == 0

\* (1 - tokens) * time_window / max_requests
BucketSleepTime(tok) == ((OneToken - tok) * time_window) \div (max_requests * OneToken)

\* a mutant of MustWait: the caller never waits for a token
MustWait_Never(tok) == FALSE

\* tokens < 1
MustWait(tok) == tok < OneToken

\* self.tokens -= 1
Consumed(tok) == tok - OneToken

\* the returns of acquire() within the last time_window, the one at time t included
RecentGrants(log, t) == SelectSeq(log, LAMBDA g : g > t - time_window)

\* RateLimiter.__init__, max_requests drawn from caps
InitBucket(caps) ==
    /\ max_requests \in caps
    /\ time_window = max_requests * TicksPerToken
    /\ tokens = max_requests * OneToken
    /\ last_update = now
    /\ b_lock = 0
    /\ grant_log = <<>>
    /\ b_created = now

\* acquire() is called: the caller waits for self.lock
BucketCall(t) ==
    /\ tpc[t] = "idle"
    /\ tpc' = [tpc EXCEPT ![t] = "b_enter"]
    /\ UNCHANGED <<t_wake, clockVars, bucketVars, dailyVars>>
    /\ UNCHANGED <<runVars, bpVars, sessionVars>>
    /\ UNCHANGED stage

\* a mutant of LockFree: the lock excludes nobody
LockFree_Always(holder) == TRUE

\* threading.Lock: it can be taken when no caller holds it
LockFree(holder) == holder = 0

\* a mutant of LockReleased: the lock is still held after acquire() has returned
LockReleased_Held(t) == t

\* the end of the with block: the lock is released, its holder is nobody
LockReleased(t) == 0

\* with self.lock
BucketLock(t) ==
    /\ tpc[t] = "b_enter"
    /\ LockFree(b_lock)
    /\ b_lock' = t
    /\ tpc' = [tpc EXCEPT ![t] = "b_refill"]
    /\ UNCHANGED <<t_wake, clockVars, dailyVars,
                   max_requests, time_window, tokens, last_update, grant_log>>
    /\ UNCHANGED <<runVars, bpVars, sessionVars>>
    /\ UNCHANGED stage
    /\ UNCHANGED b_created

\* now = time.time(); refill; last_update = now; the wait decision
BucketRefill(t) ==
    /\ tpc[t] = "b_refill"
    /\ tokens' = Refilled(tokens, now - last_update)
    /\ last_update' = now
    /\ IF MustWait(tokens')
       THEN /\ tpc' = [tpc EXCEPT ![t] = "b_sleep"]
            /\ t_wake' = [t_wake EXCEPT ![t] = now + BucketSleepTime(tokens')]
       ELSE /\ tpc' = [tpc EXCEPT ![t] = "b_consume"]
            /\ UNCHANGED t_wake
    /\ UNCHANGED <<clockVars, dailyVars, max_requests, time_window, b_lock, grant_log>>
    /\ UNCHANGED <<runVars, bpVars, sessionVars>>
    /\ UNCHANGED stage
    /\ UNCHANGED b_created

\* time.sleep(sleep_time) returns; tokens = 1; last_update = time.time()
BucketWake(t) ==
    /\ tpc[t] = "b_sleep"
    /\ now >= t_wake[t]
    /\ tokens' = OneToken
    /\ last_update' = now
    /\ tpc' = [tpc EXCEPT ![t] = "b_consume"]
    /\ t_wake' = [t_wake EXCEPT ![t] = 0]
    /\ UNCHANGED <<clockVars, dailyVars,
                   max_requests, time_window, b_lock, grant_log>>
    /\ UNCHANGED <<runVars, bpVars, sessionVars>>
    /\ UNCHANGED stage
    /\ UNCHANGED b_created

\* self.tokens -= 1; the lock is released and acquire() returns
BucketConsume(t) ==
    /\ tpc[t] = "b_consume"
    /\ tokens' = Consumed(tokens)
    /\ b_lock' = LockReleased(t)
    /\ grant_log' = Append(RecentGrants(grant_log, now), now)
    /\ tpc' = [tpc EXCEPT ![t] = "idle"]
    /\ UNCHANGED <<t_wake, clockVars, dailyVars,
                   max_requests, time_window, last_update>>
    /\ UNCHANGED <<runVars, bpVars, sessionVars>>
    /\ UNCHANGED stage
    /\ UNCHANGED b_created

\* a caller that holds a lock and is not asleep: it runs the statements of
\* acquire(), which take no time on the scale of a tick
Running(t) == tpc[t] \in {"b_refill", "b_consume", "d_check", "d_incr"}

\* time passes, while callers are idle, wait for a lock or sleep; a sleep may
\* last longer than asked
Tick ==
    /\ now < MaxTime
    /\ \A t \in Callers : ~Running(t)
    /\ now' = now + 1
    /\ UNCHANGED <<tz, bucketVars, dailyVars, callerVars>>
    /\ UNCHANGED <<runVars, bpVars, sessionVars>>

\* ---------------------------------------------------- DailyQuotaLimiter

\* _calculate_next_midnight at time t: utcnow() is the UTC wall clock; the naive
\* datetime of the next UTC midnight is built from its date, and timestamp()
\* reads a naive datetime as local time (UTC + tz)
calculate_next_midnight(t) == ((t \div DayTicks) + 1) * DayTicks - tz

\* if now >= self.reset_time: requests_made = 0 (lines 93-96)
AfterResetCheck(made, reset, t) == IF t >= reset THEN 0 ELSE made

ResetTimeAfterCheck(reset, t) == IF t >= reset THEN calculate_next_midnight(t) ELSE reset

\* a mutant of QuotaExhausted: the call that finds the counter at the cap passes
QuotaExhausted_Over(made) == made > d_max_requests

\* if self.requests_made >= self.max_requests
QuotaExhausted(made) == made >= d_max_requests

\* a mutant of AfterSleepReset: the counter is not reset after the sleep
AfterSleepReset_Kept(made) == made

\* after time.sleep: self.requests_made = 0 (line 104)
AfterSleepReset(made) == 0

\* a mutant of Incremented: the call is not counted
Incremented_Free(made) == made

\* self.requests_made += 1
Incremented(made) == made + 1

\* DailyQuotaLimiter.__init__, max_requests_per_day drawn from caps
InitDaily(caps) ==
    /\ d_max_requests \in caps
    /\ requests_made = 0
    /\ reset_time = calculate_next_midnight(now)
    /\ d_lock = 0
    /\ d_granted = 0
    /\ d_fetched = 0

\* acquire() is called: the caller waits for self.lock
DailyCall(t) ==
    /\ tpc[t] = "idle"
    /\ tpc' = [tpc EXCEPT ![t] = "d_enter"]
    /\ UNCHANGED <<t_wake, clockVars, bucketVars, dailyVars>>
    /\ UNCHANGED <<runVars, bpVars, sessionVars>>
    /\ UNCHANGED stage

\* with self.lock
DailyLock(t) ==
    /\ tpc[t] = "d_enter"
    /\ d_lock = 0
    /\ d_lock' = t
    /\ tpc' = [tpc EXCEPT ![t] = "d_check"]
    /\ UNCHANGED <<t_wake, clockVars, bucketVars,
                   d_max_requests, requests_made, reset_time, d_granted,
                   d_fetched>>
    /\ UNCHANGED <<runVars, bpVars, sessionVars>>
    /\ UNCHANGED stage

\* now = time.time(); the reset at midnight; the exhaustion check (lines 90-101).
\* time.sleep raises ValueError for a negative sleep_time.
DailyCheck(t) ==
    /\ tpc[t] = "d_check"
    /\ requests_made' = AfterResetCheck(requests_made, reset_time, now)
    /\ reset_time' = ResetTimeAfterCheck(reset_time, now)
    /\ d_granted' = IF now >= reset_time THEN 0 ELSE d_granted
    /\ d_fetched' = IF now >= reset_time THEN 0 ELSE d_fetched
    /\ IF QuotaExhausted(requests_made')
       THEN IF reset_time' - now < 0
            THEN /\ tpc' = [tpc EXCEPT ![t] = "d_error"]
                 /\ UNCHANGED t_wake
            ELSE /\ tpc' = [tpc EXCEPT ![t] = "d_sleep"]
                 /\ t_wake' = [t_wake EXCEPT ![t] = now + (reset_time' - now)]
       ELSE /\ tpc' = [tpc EXCEPT ![t] = "d_incr"]
            /\ UNCHANGED t_wake
    /\ UNCHANGED <<clockVars, bucketVars, d_max_requests, d_lock>>
    /\ UNCHANGED <<runVars, bpVars, sessionVars>>
    /\ UNCHANGED stage

\* time.sleep(sleep_time) returns; requests_made = 0; reset_time is recomputed
DailyWake(t) ==
    /\ tpc[t] = "d_sleep"
    /\ now >= t_wake[t]
    /\ requests_made' = AfterSleepReset(requests_made)
    /\ reset_time' = calculate_next_midnight(now)
    /\ d_granted' = 0
    /\ d_fetched' = 0
    /\ tpc' = [tpc EXCEPT ![t] = "d_incr"]
    /\ t_wake' = [t_wake EXCEPT ![t] = 0]
    /\ UNCHANGED <<clockVars, bucketVars, d_max_requests, d_lock>>
    /\ UNCHANGED <<runVars, bpVars, sessionVars>>
    /\ UNCHANGED stage

\* self.requests_made += 1; the lock is released and acquire() returns
DailyIncr(t) ==
    /\ tpc[t] = "d_incr"
    /\ requests_made' = Incremented(requests_made)
    /\ d_granted' = d_granted + 1
    /\ d_lock' = LockReleased(t)
    /\ tpc' = [tpc EXCEPT ![t] = "idle"]
    /\ UNCHANGED <<t_wake, clockVars, bucketVars, d_max_requests, reset_time, d_fetched>>
    /\ UNCHANGED <<runVars, bpVars, sessionVars>>
    /\ UNCHANGED stage

\* ------------------------------------------------------------ the inputs

\* text of the query fields
SortAsc == <<"d", ":", "a", "s", "c">>
SortSpaced == <<"d", " ", "e", ":", "a", "s", "c">>
SortBadOrder == <<"d", ":", "u", "p">>
\* a sort with a space and a tab in it
SortTabbed == <<"d", " ", "e", "\t", ":", "a", "s", "c">>
SearchText == <<"a", ":", "b", " ", "c">>

QueryLimits == {None, Some(UnlimitedSentinel), Some(0), Some(-2), Some(500), Some(1500),
                Some(26500)}
QuerySkips == {None, Some(-1), Some(0), Some(500), Some(24500), Some(MaxUserSkip),
               Some(MaxUserSkip + 1)}
QuerySorts == {None, Some(<<>>), Some(SortAsc), Some(SortBadOrder)}

\* the queries a caller can construct: BaseQuery's fields, accepted by __post_init__
Queries ==
    {q \in [search : {Some(SearchText)}, sort : QuerySorts, count : {None},
            limit : QueryLimits, skip : QuerySkips] : ValidQuery(q)}

\* the sizes of the datasets of the service
Totals == {500, 1500, 2000, 30000}

\* ------------------------------------------------------------ the service
\* The transport collaborator, session.get(endpoint, params): a black box that
\* fails or answers with a page, a reported total and a Link header.

\* the position in the result set a request asks for
ReqPos(p) ==
    IF "search_after" \in DOMAIN p THEN p["search_after"]
    ELSE IF "skip" \in DOMAIN p THEN p["skip"] ELSE 0

\* the number of documents a service holding svc_total records has for a request
FaithfulSize(p) ==
    Min2(RequestLimit(p), IF svc_total > ReqPos(p) THEN svc_total - ReqPos(p) ELSE 0)

\* a query string is a sequence of [k, v]; v = None is a blank value ("k=")
Pair(k, v) == [k |-> k, v |-> v]

EchoKeys == <<"search", "sort", "count", "limit">>

RECURSIVE EchoPairs(_, _)
EchoPairs(p, keys) ==
    IF keys = <<>> THEN <<>>
    ELSE (IF Head(keys) \in DOMAIN p THEN <<Pair(Head(keys), Some(p[Head(keys)]))>> ELSE <<>>)
         \o EchoPairs(p, Tail(keys))

\* the query string of the next link: the request's own parameters and the
\* service's cursor (the position after the page)
NextQuery(p, n) == EchoPairs(p, EchoKeys) \o <<Pair("search_after", Some(ReqPos(p) + n))>>

NoLink == [rel |-> "none", query |-> <<>>]
BadLink == [rel |-> "malformed", query |-> <<>>]
NextLink(p, n) == [rel |-> "next", query |-> NextQuery(p, n)]
\* a next link whose query string also holds a key with a blank value ("skip=")
BlankLink(p, n) == [rel |-> "next", query |-> <<Pair("skip", None)>> \o NextQuery(p, n)]

\* the page sizes the service may answer with: never more than the limit asked
PageSizes(p) == {0, RequestLimit(p) \div 2, RequestLimit(p), FaithfulSize(p)}

ReportedTotals == {None} \cup {Some(t) : t \in Totals}

\* the outcomes of one fetch
Responses(p) ==
    {[fail |-> TRUE, n |-> 0, total |-> None, link |-> NoLink]}
    \cup UNION {{[fail |-> FALSE, n |-> n, total |-> t, link |-> l] :
                    t \in ReportedTotals,
                    l \in {NoLink, BadLink, NextLink(p, n), BlankLink(p, n)}} :
                 n \in PageSizes(p)}

\* the answer of a service that holds svc_total records, reports that total, returns
\* every record it has for the request and links to the next page while one exists
IsFaithful(p, r) ==
    /\ ~r.fail
    /\ r.n = FaithfulSize(p)
    /\ r.total = Some(svc_total)
    /\ r.link = IF ReqPos(p) + r.n < svc_total THEN NextLink(p, r.n) ELSE NoLink

\* urllib.parse.parse_qs(query) and the conversion to single values: blank values
\* are dropped, a key given once maps to its value, a key given several times to
\* the list of its values
RECURSIVE ValuesOf(_, _)
ValuesOf(qs, k) ==
    IF qs = <<>> THEN <<>>
    ELSE (IF Head(qs).k = k /\ ~IsNone(Head(qs).v) THEN <<Val(Head(qs).v)>> ELSE <<>>)
         \o ValuesOf(Tail(qs), k)

ParseQs(qs) ==
    [k \in {qs[i].k : i \in {j \in 1..Len(qs) : ~IsNone(qs[j].v)}} |->
        IF Len(ValuesOf(qs, k)) = 1 THEN ValuesOf(qs, k)[1] ELSE ValuesOf(qs, k)]

\* ------------------------------------------- the limiters, called by a run
\* One run calls acquire() with no other caller on the client: the lock is free,
\* and the call sleeps, if it must, and returns.

\* self.minute_limiter.acquire()
MinuteAcquire ==
    LET refilled == Refilled(tokens, now - last_update)
        woken == now + BucketSleepTime(refilled)
    IN  /\ b_lock = 0
        /\ IF MustWait(refilled)
           THEN /\ now' = woken
                /\ tokens' = Consumed(OneToken)
           ELSE /\ now' = now
                /\ tokens' = Consumed(refilled)
        /\ last_update' = now'
        /\ grant_log' = Append(RecentGrants(grant_log, now'), now')
        /\ UNCHANGED <<tz, max_requests, time_window, b_lock, b_created>>

\* self.day_limiter.acquire()
DayAcquire ==
    LET made == AfterResetCheck(requests_made, reset_time, now)
        reset == ResetTimeAfterCheck(reset_time, now)
    IN  /\ d_lock = 0
        /\ IF QuotaExhausted(made)
           THEN /\ now' = now + (reset - now)
                /\ requests_made' = Incremented(AfterSleepReset(made))
                /\ reset_time' = calculate_next_midnight(now')
                /\ d_granted' = 1
                /\ d_fetched' = 0
           ELSE /\ now' = now
                /\ requests_made' = Incremented(made)
                /\ reset_time' = reset
                /\ d_granted' = IF now >= reset_time THEN 1 ELSE d_granted + 1
                /\ d_fetched' = IF now >= reset_time THEN 0 ELSE d_fetched
        /\ UNCHANGED <<tz, d_max_requests, d_lock>>

\* --------------------------------------------------- FDAClient.api_search

\* total_available or 0
TotalOrZero(t) == IF IntTruthy(t) THEN Val(t) ELSE 0

\* user_limit = query.limit or 1000
AskedLimit(q) == IF IntTruthy(q.limit) THEN Val(q.limit) ELSE DefaultLimit

\* lines 265-281: the locals of a run; the query is only read
ApiSearch ==
    /\ pc = "idle"
    /\ user_skip' = (IF IntTruthy(query.skip) THEN Val(query.skip) ELSE 0)
    /\ current_skip' = user_skip'
    /\ remaining' = (IF AskedLimit(query) = UnlimitedSentinel THEN Inf
                     ELSE Fin(AskedLimit(query)))
    /\ nresults' = 0
    /\ all_results' = <<>>
    /\ total_available' = None
    /\ pc' = "offset_loop"
    /\ UNCHANGED <<query, batch_size, params, outcome, result, svc_total, svc_faithful,
                   nfetch, mode, switches, switch_skip, warned, empty_at>>
    /\ UNCHANGED <<clockVars, bucketVars, dailyVars, callerVars, bpVars, sessionVars>>
    /\ UNCHANGED failed_at
    /\ UNCHANGED since_fetch
    /\ UNCHANGED first_total
    /\ UNCHANGED last_total
    /\ UNCHANGED stop
    /\ UNCHANGED served
    /\ UNCHANGED page_total
    /\ UNCHANGED page_link

\* a mutant of BatchSize: the known total does not bound the batch
BatchSize_NoTotal(rem, total, skip, uskip) == RemMin(rem, PageMax)

\* min(remaining, 1000), and once total_available is known
\* min(batch_size, total_available - (current_skip - user_skip))
BatchSize(rem, total, skip, uskip) ==
    IF IsNone(total) THEN RemMin(rem, PageMax)
    ELSE Min2(RemMin(rem, PageMax), Val(total) - (skip - uskip))

\* a mutant of OffsetGuard: the offset 25000 itself is still paged by skip
OffsetGuard_Inclusive(rem, skip) == RemPositive(rem) /\ skip <= OffsetCeiling

\* while remaining > 0 and current_skip < 25000
OffsetGuard(rem, skip) == RemPositive(rem) /\ skip < OffsetCeiling

\* lines 285-301: the loop test, the batch size and the parameters of the request
OffsetLoop ==
    /\ pc = "offset_loop"
    /\ IF OffsetGuard(remaining, current_skip)
       THEN LET b == BatchSize(remaining, total_available, current_skip, user_skip)
            IN  /\ batch_size' = b
                /\ IF (~IsNone(total_available)) /\ b <= 0
                   THEN /\ pc' = "phase2"
                        /\ stop' = "batch"
                        /\ UNCHANGED params
                   ELSE /\ params' = build_params(query, Some(b), Some(current_skip))
                        /\ pc' = "off_minute"
                        /\ UNCHANGED stop
       ELSE /\ pc' = "phase2"
            /\ stop' = (IF RemPositive(remaining) THEN "ceiling" ELSE "remaining")
            /\ UNCHANGED <<batch_size, params>>
    /\ UNCHANGED <<query, user_skip, current_skip, remaining, total_available, nresults,
                   outcome, result, svc_total, svc_faithful, nfetch, mode, switches,
                   switch_skip, warned, empty_at>>
    /\ UNCHANGED <<clockVars, bucketVars, dailyVars, callerVars, bpVars, sessionVars>>
    /\ UNCHANGED failed_at
    /\ UNCHANGED since_fetch
    /\ UNCHANGED first_total
    /\ UNCHANGED last_total
    /\ UNCHANGED all_results
    /\ UNCHANGED served
    /\ UNCHANGED page_total
    /\ UNCHANGED page_link

\* a mutant of AfterMinute: the request follows the token bucket's acquire() at once
AfterMinute_NoDay(p) == IF p = "off_minute" THEN "off_fetch" ELSE "cur_fetch"

\* the statement after self.minute_limiter.acquire(): self.day_limiter.acquire()
AfterMinute(p) == IF p = "off_minute" THEN "off_day" ELSE "cur_day"

\* line 304, and line 354 in cursor mode
RunMinute ==
    /\ pc \in {"off_minute", "cur_minute"}
    /\ MinuteAcquire
    /\ pc' = AfterMinute(pc)
    /\ since_fetch' = Append(since_fetch, "minute")
    /\ UNCHANGED <<dailyVars, callerVars, bpVars, sessionVars>>
    /\ UNCHANGED <<query, user_skip, current_skip, remaining, total_available, nresults,
                   batch_size, params, outcome, result, svc_total, svc_faithful, nfetch,
                   mode, switches, switch_skip, warned, empty_at>>
    /\ UNCHANGED failed_at
    /\ UNCHANGED first_total
    /\ UNCHANGED last_total
    /\ UNCHANGED stop
    /\ UNCHANGED all_results
    /\ UNCHANGED served
    /\ UNCHANGED page_total
    /\ UNCHANGED page_link

\* line 305, and line 355 in cursor mode
RunDay ==
    /\ pc \in {"off_day", "cur_day"}
    /\ DayAcquire
    /\ pc' = (IF pc = "off_day" THEN "off_fetch" ELSE "cur_fetch")
    /\ since_fetch' = Append(since_fetch, "day")
    /\ UNCHANGED <<bucketVars, callerVars, bpVars, sessionVars>>
    /\ UNCHANGED <<query, user_skip, current_skip, remaining, total_available, nresults,
                   batch_size, params, outcome, result, svc_total, svc_faithful, nfetch,
                   mode, switches, switch_skip, warned, empty_at>>
    /\ UNCHANGED failed_at
    /\ UNCHANGED first_total
    /\ UNCHANGED last_total
    /\ UNCHANGED stop
    /\ UNCHANGED all_results
    /\ UNCHANGED served
    /\ UNCHANGED page_total
    /\ UNCHANGED page_link

\* a mutant of ReadTotal: a page that reports no total is taken to report more
\* records than any run holds
ReadTotal_Large(r) == IF IsNone(r.total) THEN Some(30000) ELSE r.total

\* data.get('meta', {}).get('results', {}).get('total', 0)
ReadTotal(r) == IF IsNone(r.total) THEN Some(0) ELSE r.total

\* a mutant of NewTotal: the total is fixed by the first page that reports one
NewTotal_First(old, r) == IF IsNone(old) THEN ReadTotal(r) ELSE old

\* line 314: total_available is assigned from the response of every page of the
\* offset mode
NewTotal(old, r) == ReadTotal(r)

\* a mutant of OffsetStops: the offset loop goes on when everything is retrieved
OffsetStops_NoTotal(n, batch, count, total) == n = 0 \/ n < batch

\* a mutant of OffsetStops: a partial page does not stop the offset loop
OffsetStops_NoPartial(n, batch, count, total) == n = 0 \/ count >= Val(total)

\* the three stops of the offset loop after a page of n documents (lines 316-333):
\* an empty page, a partial page, everything retrieved
OffsetStops(n, batch, count, total) == n = 0 \/ n < batch \/ count >= Val(total)

\* the documents of the page of request f put after the documents held: the last
\* run grows by the page when the page follows it, a new run starts otherwise
PageAfter(all, f) ==
    IF all # <<>> /\ all[Len(all)].to + 1 = f
    THEN [all EXCEPT ![Len(all)].to = f]
    ELSE Append(all, [from |-> f, to |-> f])

\* a mutant of Extended: the new page replaces the documents held
Extended_Replaced(all, f) == <<[from |-> f, to |-> f]>>

\* all_results.extend(batch), lines 322 and 368
Extended(all, f) == PageAfter(all, f)

\* which of the three breaks is taken: they are tested in this order
OffsetStop(n, batch) == IF n = 0 THEN "empty" ELSE IF n < batch THEN "partial" ELSE "total"

\* a mutant of Raises: the error of a fetch is swallowed
Raises_Swallowed(r) == FALSE

\* session.get raises a RequestException (a transport error) or raise_for_status
\* raises an HTTPError (a status that is not 2xx); both reach the except clauses
\* of lines 405-417, which log and re-raise
Raises(r) == r.fail

\* lines 308-337: the request, and the handling of its response
OffsetFetch ==
    /\ pc = "off_fetch"
    /\ \E r \in Responses(params) :
        /\ nfetch' = nfetch + 1
        /\ svc_faithful' = (svc_faithful /\ IsFaithful(params, r))
        /\ failed_at' = (IF r.fail THEN Some(nfetch') ELSE failed_at)
        /\ since_fetch' = <<>>
        /\ last_total' = (IF r.fail THEN last_total ELSE Some(r.total))
        /\ first_total' = (IF (~r.fail) /\ IsNone(first_total) THEN ReadTotal(r)
                         ELSE first_total)
        /\ d_fetched' = d_fetched + 1
        /\ served' = (IF r.fail \/ r.n = 0 THEN served ELSE served \cup {nfetch'})
        /\ page_total' = (IF r.fail THEN page_total ELSE Some(r.total))
        /\ IF Raises(r)
           THEN /\ pc' = "done"
                /\ outcome' = "raised"
                /\ stop' = "error"
                /\ UNCHANGED <<total_available, nresults, remaining, current_skip, empty_at>>
                /\ UNCHANGED all_results
           ELSE /\ total_available' = NewTotal(total_available, r)
                /\ all_results' = (IF r.n = 0 THEN all_results
                                   ELSE Extended(all_results, nfetch'))
                /\ nresults' = nresults + r.n
                /\ empty_at' = (IF r.n = 0 /\ IsNone(empty_at)
                                THEN Some(<<nfetch', nresults>>) ELSE empty_at)
                /\ IF OffsetStops(r.n, batch_size, nresults', total_available')
                   THEN /\ pc' = "phase2"
                        /\ stop' = OffsetStop(r.n, batch_size)
                        /\ UNCHANGED <<remaining, current_skip>>
                   ELSE /\ remaining' = RemMinus(remaining, r.n)
                        /\ current_skip' = current_skip + r.n
                        /\ pc' = "offset_loop"
                        /\ UNCHANGED stop
                /\ UNCHANGED outcome
    /\ UNCHANGED <<query, user_skip, batch_size, params, result, svc_total, mode,
                   switches, switch_skip, warned>>
    /\ UNCHANGED <<clockVars, bucketVars, callerVars, bpVars, sessionVars>>
    /\ UNCHANGED <<d_max_requests, requests_made, reset_time, d_lock, d_granted>>
    /\ UNCHANGED page_link

\* a mutant of Phase2Reached: the switch does not look at current_skip
Phase2Reached_AnySkip(rem, skip) == RemPositive(rem)

\* remaining > 0 and current_skip >= 25000, the first two operands of line 340
Phase2Reached(rem, skip) == RemPositive(rem) /\ skip >= OffsetCeiling

\* lines 340-348: the switch to search_after.  len(all_results) < total_available
\* is evaluated only when the first two operands hold, and comparing an int with
\* None raises TypeError, which no handler of api_search catches.
Phase2 ==
    /\ pc = "phase2"
    /\ IF Phase2Reached(remaining, current_skip)
       THEN IF IsNone(total_available)
            THEN /\ pc' = "done"
                 /\ outcome' = "TypeError"
                 /\ stop' = "TypeError"
                 /\ UNCHANGED <<params, mode, switches, switch_skip, warned>>
            ELSE IF nresults < Val(total_available)
                 THEN IF ~StrTruthy(query.sort)
                      THEN /\ warned' = TRUE
                           /\ pc' = "return"
                           /\ stop' = "nosort"
                           /\ UNCHANGED <<params, mode, switches, switch_skip, outcome>>
                      ELSE /\ params' = build_params(query, Some(RemMin(remaining, PageMax)), None)
                           /\ mode' = "cursor"
                           /\ switches' = switches + 1
                           /\ switch_skip' = Some(current_skip)
                           /\ pc' = "cursor_loop"
                           /\ stop' = "none"
                           /\ UNCHANGED <<warned, outcome>>
                 ELSE /\ pc' = "return"
                      /\ UNCHANGED <<params, mode, switches, switch_skip, warned, outcome>>
                      /\ UNCHANGED stop
       ELSE /\ pc' = "return"
            /\ UNCHANGED <<params, mode, switches, switch_skip, warned, outcome>>
            /\ UNCHANGED stop
    /\ UNCHANGED <<query, user_skip, current_skip, remaining, total_available, nresults,
                   batch_size, result, svc_total, svc_faithful, nfetch, empty_at>>
    /\ UNCHANGED <<clockVars, bucketVars, dailyVars, callerVars, bpVars, sessionVars>>
    /\ UNCHANGED failed_at
    /\ UNCHANGED since_fetch
    /\ UNCHANGED first_total
    /\ UNCHANGED last_total
    /\ UNCHANGED all_results
    /\ UNCHANGED served
    /\ UNCHANGED page_total
    /\ UNCHANGED page_link

\* line 350: while remaining > 0
CursorLoop ==
    /\ pc = "cursor_loop"
    /\ pc' = (IF RemPositive(remaining) THEN "cur_minute" ELSE "return")
    /\ stop' = (IF RemPositive(remaining) THEN stop ELSE "remaining")
    /\ UNCHANGED <<query, user_skip, current_skip, remaining, total_available, nresults,
                   batch_size, params, outcome, result, svc_total, svc_faithful, nfetch,
                   mode, switches, switch_skip, warned, empty_at>>
    /\ UNCHANGED <<clockVars, bucketVars, dailyVars, callerVars, bpVars, sessionVars>>
    /\ UNCHANGED failed_at
    /\ UNCHANGED since_fetch
    /\ UNCHANGED first_total
    /\ UNCHANGED last_total
    /\ UNCHANGED all_results
    /\ UNCHANGED served
    /\ UNCHANGED page_total
    /\ UNCHANGED page_link

\* a mutant of CursorStops: the Link header is not looked at
CursorStops_AnyLink(n, count, total, link) == n = 0 \/ count >= Val(total)

\* a mutant of CursorStops: an empty page does not stop the cursor loop
CursorStops_NoEmpty(n, count, total, link) == count >= Val(total) \/ link.rel # "next"

\* the stops of the cursor loop after a page of n documents (lines 364-389):
\* an empty page, everything retrieved, no next link
CursorStops(n, count, total, link) == n = 0 \/ count >= Val(total) \/ link.rel # "next"

\* a mutant of CursorTotal: the cursor loop reads the total of its pages
CursorTotal_Page(old, r) == ReadTotal(r)

\* lines 360-362: of the response of a cursor page only 'results' is read;
\* total_available is not assigned in the cursor loop
CursorTotal(old, r) == old

\* which of the breaks is taken: they are tested in this order
CursorStop(n, count, total, link) ==
    IF n = 0 THEN "empty"
    ELSE IF count >= Val(total) THEN "total"
    ELSE IF link.rel = "none" THEN "nolink" ELSE "badlink"

\* lines 357-397: the request, the handling of its response, the next parameters
CursorFetch ==
    /\ pc = "cur_fetch"
    /\ \E r \in Responses(params) :
        /\ nfetch' = nfetch + 1
        /\ svc_faithful' = (svc_faithful /\ IsFaithful(params, r))
        /\ failed_at' = (IF r.fail THEN Some(nfetch') ELSE failed_at)
        /\ since_fetch' = <<>>
        /\ d_fetched' = d_fetched + 1
        /\ served' = (IF r.fail \/ r.n = 0 THEN served ELSE served \cup {nfetch'})
        /\ page_total' = (IF r.fail THEN page_total ELSE Some(r.total))
        /\ IF Raises(r)
           THEN /\ pc' = "done"
                /\ outcome' = "raised"
                /\ stop' = "error"
                /\ UNCHANGED <<nresults, remaining, params, empty_at, total_available>>
                /\ UNCHANGED page_link
                /\ UNCHANGED all_results
           ELSE /\ total_available' = CursorTotal(total_available, r)
                /\ page_link' = Some(r.link)
                /\ all_results' = (IF r.n = 0 THEN all_results
                                   ELSE Extended(all_results, nfetch'))
                /\ nresults' = nresults + r.n
                /\ remaining' = (IF r.n = 0 THEN remaining ELSE RemMinus(remaining, r.n))
                /\ empty_at' = (IF r.n = 0 /\ IsNone(empty_at)
                                THEN Some(<<nfetch', nresults>>) ELSE empty_at)
                /\ IF CursorStops(r.n, nresults', total_available', r.link)
                   THEN /\ pc' = "return"
                        /\ stop' = CursorStop(r.n, nresults', total_available', r.link)
                        /\ UNCHANGED params
                   ELSE /\ params' = ParseQs(r.link.query)
                        /\ pc' = "cursor_loop"
                        /\ UNCHANGED stop
                /\ UNCHANGED outcome
    /\ UNCHANGED <<query, user_skip, current_skip, batch_size, result,
                   svc_total, mode, switches, switch_skip, warned>>
    /\ UNCHANGED <<clockVars, bucketVars, callerVars, bpVars, sessionVars>>
    /\ UNCHANGED <<d_max_requests, requests_made, reset_time, d_lock, d_granted>>
    /\ UNCHANGED first_total
    /\ UNCHANGED last_total

\* a mutant of ResultQuery: the result carries the query with the pagination
\* progress written into it
ResultQuery_Paged(q) == [q EXCEPT !.skip = Some(OffsetCeiling)]

\* QueryResult(query=query, ...): the caller's query object itself
ResultQuery(q) == q

\* lines 399-403: the QueryResult
Return ==
    /\ pc = "return"
    /\ result' = [query |-> ResultQuery(query), total_results |-> TotalOrZero(total_available),
                  nrecords |-> nresults, records |-> all_results]
    /\ outcome' = "returned"
    /\ pc' = "done"
    /\ UNCHANGED <<query, user_skip, current_skip, remaining, total_available, nresults,
                   batch_size, params, svc_total, svc_faithful, nfetch, mode, switches,
                   switch_skip, warned, empty_at>>
    /\ UNCHANGED <<clockVars, bucketVars, dailyVars, callerVars, bpVars, sessionVars>>
    /\ UNCHANGED failed_at
    /\ UNCHANGED since_fetch
    /\ UNCHANGED first_total
    /\ UNCHANGED last_total
    /\ UNCHANGED stop
    /\ UNCHANGED all_results
    /\ UNCHANGED served
    /\ UNCHANGED page_total
    /\ UNCHANGED page_link

\* ------------------------------------------------- the specifications

CallersIdle ==
    /\ tpc = [t \in Callers |-> "idle"]
    /\ t_wake = [t \in Callers |-> 0]
    /\ stage = [t \in Callers |-> "loop"]

\* self.session = requests.Session()
SessionOpen == closed = FALSE

\* no api_search call has ended on the client
NoEarlierRun == earlier = <<>>


NoBuild ==
    /\ bp_args = None
    /\ bp_out = None

\* no run of api_search
NoRun ==
    /\ pc = "idle"
    /\ user_skip = 0
    /\ current_skip = 0
    /\ remaining = Fin(0)
    /\ total_available = None
    /\ nresults = 0
    /\ batch_size = 0
    /\ params = EmptyMap
    /\ outcome = "none"
    /\ result = None
    /\ svc_faithful = TRUE
    /\ nfetch = 0
    /\ mode = "offset"
    /\ switches = 0
    /\ switch_skip = None
    /\ warned = FALSE
    /\ empty_at = None
    /\ failed_at = None
    /\ since_fetch = <<>>
    /\ first_total = None
    /\ last_total = None
    /\ stop = "none"
    /\ all_results = <<>>
    /\ served = {}
    /\ page_total = None
    /\ page_link = None

\* FDAClient(max_requests_per_minute = MaxCapacity, max_requests_per_day =
\* MaxDailyCap) freshly constructed on a host whose zone is UTC, a query about to
\* be run on it, and the dataset the service holds for that query
Init ==
    /\ now = 0
    /\ tz = 0
    /\ InitBucket({MaxCapacity})
    /\ InitDaily({MaxDailyCap})
    /\ CallersIdle
    /\ NoBuild
    /\ SessionOpen
    /\ NoEarlierRun
    /\ NoRun
    /\ query \in Queries
    /\ svc_total \in Totals

Next ==
    \/ ApiSearch
    \/ OffsetLoop
    \/ RunMinute
    \/ RunDay
    \/ OffsetFetch
    \/ Phase2
    \/ CursorLoop
    \/ CursorFetch
    \/ Return

Spec == Init /\ [][Next]_vars

\* every call of a run returns: acquire() (see SpecLive), session.get, and the
\* statements between them, so a run that can take a step takes one
RunFairness == WF_vars(Next)

\* one run of api_search whose calls all return
SpecTerm == Init /\ [][Next]_vars /\ RunFairness

\* Callers of one RateLimiter, time passing between their steps
InitBucketSpec ==
    /\ now \in 0..1
    /\ tz = 0
    /\ InitBucket(1..MaxCapacity)
    /\ InitDaily({MaxDailyCap})
    /\ CallersIdle
    /\ NoBuild
    /\ SessionOpen
    /\ NoEarlierRun
    /\ NoRun
    /\ query \in {q \in Queries : q.limit = None /\ q.skip = None /\ q.sort = None}
    /\ svc_total = 0

NextBucket ==
    \/ Tick
    \/ \E t \in Callers :
        \/ BucketCall(t)
        \/ BucketLock(t)
        \/ BucketRefill(t)
        \/ BucketWake(t)
        \/ BucketConsume(t)

SpecBucket == InitBucketSpec /\ [][NextBucket]_vars

\* Callers of one DailyQuotaLimiter, on a host in any zone, constructed at any
\* time of the day
InitDailySpec ==
    /\ now \in 0..(DayTicks - 1)
    /\ tz \in -MaxTzOffset..MaxTzOffset
    /\ InitBucket({MaxCapacity})
    /\ InitDaily(1..MaxDailyCap)
    /\ CallersIdle
    /\ NoBuild
    /\ SessionOpen
    /\ NoEarlierRun
    /\ NoRun
    /\ query \in {q \in Queries : q.limit = None /\ q.skip = None /\ q.sort = None}
    /\ svc_total = 0

NextDaily ==
    \/ Tick
    \/ \E t \in Callers :
        \/ DailyCall(t)
        \/ DailyLock(t)
        \/ DailyCheck(t)
        \/ DailyWake(t)
        \/ DailyIncr(t)

SpecDaily == InitDailySpec /\ [][NextDaily]_vars

\* Several api_search runs on one client, one per caller: the fetch loop of each
\* run is the sequence acquire, acquire, request; what a run does with the
\* response is left out, and a caller whose run is over starts another.

\* a mutant of AcquireReturned: day_limiter.acquire() is called inside the with
\* block of minute_limiter.acquire()
AcquireReturned_Inside(p) == p = "b_consume"

\* lines 304-305 are two statements: the second acquire() is called when the
\* first has returned
AcquireReturned(p) == p = "idle"

\* self.minute_limiter.acquire() is called (lines 304, 354)
SharedMinute(t) ==
    /\ stage[t] = "loop"
    /\ tpc[t] = "idle"
    /\ tpc' = [tpc EXCEPT ![t] = "b_enter"]
    /\ stage' = [stage EXCEPT ![t] = "minute"]
    /\ UNCHANGED <<t_wake, clockVars, bucketVars, dailyVars, runVars, bpVars, sessionVars>>

\* it has returned; self.day_limiter.acquire() is called (lines 305, 355)
SharedDay(t) ==
    /\ stage[t] = "minute"
    /\ AcquireReturned(tpc[t])
    /\ tpc' = [tpc EXCEPT ![t] = "d_enter"]
    /\ stage' = [stage EXCEPT ![t] = "day"]
    /\ UNCHANGED <<t_wake, clockVars, bucketVars, dailyVars, runVars, bpVars, sessionVars>>

\* it has returned; self.session.get(...) is called (lines 308, 357)
SharedFetch(t) ==
    /\ stage[t] = "day"
    /\ tpc[t] = "idle"
    /\ d_fetched' = d_fetched + 1
    /\ stage' = [stage EXCEPT ![t] = "loop"]
    /\ UNCHANGED <<tpc, t_wake, clockVars, bucketVars, runVars, bpVars, sessionVars>>
    /\ UNCHANGED <<d_max_requests, requests_made, reset_time, d_lock, d_granted>>

\* FDAClient constructed at any time of the day on a host whose zone is UTC
InitSharedSpec ==
    /\ now \in 0..(DayTicks - 1)
    /\ tz = 0
    /\ InitBucket({MaxCapacity})
    /\ InitDaily(1..MaxDailyCap)
    /\ CallersIdle
    /\ NoBuild
    /\ SessionOpen
    /\ NoEarlierRun
    /\ NoRun
    /\ query \in {q \in Queries : q.limit = None /\ q.skip = None /\ q.sort = None}
    /\ svc_total = 0

NextShared ==
    \/ Tick
    \/ \E t \in Callers :
        \/ SharedMinute(t)
        \/ BucketLock(t)
        \/ BucketRefill(t)
        \/ BucketWake(t)
        \/ BucketConsume(t)
        \/ SharedDay(t)
        \/ DailyLock(t)
        \/ DailyCheck(t)
        \/ DailyWake(t)
        \/ DailyIncr(t)
        \/ SharedFetch(t)

SpecShared == InitSharedSpec /\ [][NextShared]_vars

\* Callers of both limiters of one client, where every call has the time to
\* return: calls are started up to LastCall, a caller that can take a step does
\* so before the clock moves, and the clock runs until LiveEnd, by when the last of NumCallers callers, each
\* sleeping until the next reset of the daily counter, has returned.
LiveEnd == LastCall + NumCallers * (DayTicks + MaxTzOffset)

LiveBucketCall(t) ==
    /\ now <= LastCall
    /\ BucketCall(t)

LiveDailyCall(t) ==
    /\ now <= LastCall
    /\ DailyCall(t)

\* a caller can take its next step now: it runs under a lock, its sleep is over,
\* or the lock it waits for is free
Ready(t) ==
    \/ Running(t)
    \/ tpc[t] \in {"b_sleep", "d_sleep"} /\ now >= t_wake[t]
    \/ tpc[t] = "b_enter" /\ LockFree(b_lock)
    \/ tpc[t] = "d_enter" /\ d_lock = 0

\* time passes while no caller can take a step
LiveTick ==
    /\ now < LiveEnd
    /\ \A t \in Callers : ~Ready(t)
    /\ now' = now + 1
    /\ UNCHANGED <<tz, bucketVars, dailyVars, callerVars, runVars, bpVars, sessionVars>>

\* the client is constructed at the epoch or at LastCall, on a host at UTC or at
\* either extreme zone, with the smallest or the largest capacities
InitLiveSpec ==
    /\ now \in {0, LastCall}
    /\ tz \in {-MaxTzOffset, 0, MaxTzOffset}
    /\ InitBucket({1, MaxCapacity})
    /\ InitDaily({1, MaxDailyCap})
    /\ CallersIdle
    /\ NoBuild
    /\ SessionOpen
    /\ NoEarlierRun
    /\ NoRun
    /\ query \in {q \in Queries : q.limit = None /\ q.skip = None /\ q.sort = None}
    /\ svc_total = 0

NextLive ==
    \/ LiveTick
    \/ \E t \in Callers :
        \/ LiveBucketCall(t)
        \/ BucketLock(t)
        \/ BucketRefill(t)
        \/ BucketWake(t)
        \/ BucketConsume(t)
        \/ LiveDailyCall(t)
        \/ DailyLock(t)
        \/ DailyCheck(t)
        \/ DailyWake(t)
        \/ DailyIncr(t)

\* time advances, a caller that can run does run, and a lock that stays free is
\* granted to a caller that waits for it (the callers start finitely many calls,
\* so this is as much fairness of the lock as they need)
LiveFairness ==
    /\ WF_vars(LiveTick)
    /\ \A t \in Callers :
        /\ WF_vars(BucketLock(t))
        /\ WF_vars(DailyLock(t))
        /\ WF_vars(BucketRefill(t))
        /\ WF_vars(BucketWake(t))
        /\ WF_vars(BucketConsume(t))
        /\ WF_vars(DailyCheck(t))
        /\ WF_vars(DailyWake(t))
        /\ WF_vars(DailyIncr(t))

SpecLive == InitLiveSpec /\ [][NextLive]_vars /\ LiveFairness

\* a mutant of CloseFree: close() waits until no caller is inside a limiter
CloseFree_Limiters == b_lock = 0 /\ d_lock = 0

\* close() takes none of the client's locks: it is self.session.close() alone
CloseFree == TRUE

\* FDAClient.close(), lines 419-421, called by any thread at any time
Close ==
    /\ ~closed
    /\ CloseFree
    /\ closed' = TRUE
    /\ UNCHANGED earlier
    /\ UNCHANGED <<clockVars, bucketVars, dailyVars, callerVars, runVars, bpVars>>

\* callers of both limiters of one client, and a thread that closes the client
NextClose ==
    \/ NextLive
    \/ Close

SpecClose == InitLiveSpec /\ [][NextClose]_vars

\* Several api_search calls on one client, one after another: when a call has
\* returned or raised, the caller makes the next one, with a query of its choice,
\* on the limiters as the earlier calls left them.

\* the queries of these calls: one page from the start of an unsorted result
\* set, or two pages of a sorted one from skip 24500, the second by cursor
RunQueries ==
    {q \in Queries :
        \/ q.limit = Some(500) /\ q.skip = None /\ q.sort = None
        \/ q.limit = Some(1500) /\ q.skip = Some(24500) /\ q.sort = Some(SortAsc)}

\* the call has ended; the caller is about to call api_search again
NextRun ==
    /\ pc = "done"
    /\ Len(earlier) + 1 < MaxRuns
    /\ earlier' = Append(earlier, outcome)
    /\ pc' = "idle"
    /\ user_skip' = 0
    /\ current_skip' = 0
    /\ remaining' = Fin(0)
    /\ total_available' = None
    /\ nresults' = 0
    /\ batch_size' = 0
    /\ params' = EmptyMap
    /\ outcome' = "none"
    /\ result' = None
    /\ svc_faithful' = TRUE
    /\ nfetch' = 0
    /\ mode' = "offset"
    /\ switches' = 0
    /\ switch_skip' = None
    /\ warned' = FALSE
    /\ empty_at' = None
    /\ failed_at' = None
    /\ since_fetch' = <<>>
    /\ first_total' = None
    /\ last_total' = None
    /\ stop' = "none"
    /\ all_results' = <<>>
    /\ served' = {}
    /\ page_total' = None
    /\ page_link' = None
    /\ query' \in RunQueries
    /\ UNCHANGED <<svc_total, closed>>
    /\ UNCHANGED <<clockVars, bucketVars, dailyVars, callerVars, bpVars>>

InitRunsSpec ==
    /\ now = 0
    /\ tz = 0
    /\ InitBucket({MaxCapacity})
    /\ InitDaily({MaxDailyCap})
    /\ CallersIdle
    /\ NoBuild
    /\ SessionOpen
    /\ NoEarlierRun
    /\ NoRun
    /\ query \in RunQueries
    /\ svc_total = 30000

NextRuns ==
    \/ Next
    \/ NextRun

SpecRuns == InitRunsSpec /\ [][NextRuns]_vars

\* Concurrent api_search runs on one client, one per caller, scheduled as in
\* SpecLive: a run that can take a step does so before the clock moves, and the
\* runs begin iterations of their fetch loops up to LastCall.

LiveSharedMinute(t) ==
    /\ now <= LastCall
    /\ SharedMinute(t)

NextConcurrent ==
    \/ LiveTick
    \/ \E t \in Callers :
        \/ LiveSharedMinute(t)
        \/ BucketLock(t)
        \/ BucketRefill(t)
        \/ BucketWake(t)
        \/ BucketConsume(t)
        \/ SharedDay(t)
        \/ DailyLock(t)
        \/ DailyCheck(t)
        \/ DailyWake(t)
        \/ DailyIncr(t)
        \/ SharedFetch(t)

SpecConcurrent == InitLiveSpec /\ [][NextConcurrent]_vars

\* _build_params called on its own, with every query and every pair of overrides
BuildQueries ==
    {q \in [search : {None, Some(<<>>), Some(SearchText)}, sort : QuerySorts \cup {Some(SortSpaced), Some(SortTabbed)},
            count : {None, Some(SearchText)}, limit : QueryLimits \cup {Some(PageMax)},
            skip : QuerySkips] : ValidQuery(q)}

OverrideLimits == {None, Some(1), Some(500), Some(PageMax)}
OverrideSkips == {None, Some(0), Some(1000), Some(OffsetCeiling)}

InitParamsSpec ==
    /\ now = 0
    /\ tz = 0
    /\ InitBucket({MaxCapacity})
    /\ InitDaily({MaxDailyCap})
    /\ CallersIdle
    /\ NoBuild
    /\ SessionOpen
    /\ NoEarlierRun
    /\ NoRun
    /\ query \in BuildQueries
    /\ svc_total = 0

\* params = self._build_params(query, limit, skip)
BuildCall ==
    /\ bp_out = None
    /\ \E limit \in OverrideLimits, skip \in OverrideSkips :
        /\ bp_args' = Some([limit |-> limit, skip |-> skip])
        /\ bp_out' = Some(build_params(query, limit, skip))
    /\ UNCHANGED <<clockVars, bucketVars, dailyVars, callerVars, runVars>>
    /\ UNCHANGED sessionVars

\* the map is dropped; the query can be passed again
BuildForget ==
    /\ bp_out # None
    /\ bp_args' = None
    /\ bp_out' = None
    /\ UNCHANGED <<clockVars, bucketVars, dailyVars, callerVars, runVars>>
    /\ UNCHANGED sessionVars

NextParams ==
    \/ BuildCall
    \/ BuildForget

SpecParams == InitParamsSpec /\ [][NextParams]_vars

\* ------------------------------------------------------------ the claims

\* C1: the number of DailyQuotaLimiter.acquire() calls that return between two
\* consecutive resets of the counter never exceeds the daily cap, and
\* requests_made <= max_requests whenever no caller is inside acquire().
C1_QuotaNeverExceeded ==
    /\ d_granted <= d_max_requests
    /\ d_lock = 0 => requests_made <= d_max_requests

\* C1: the counter was reset at least once (reset_time was recomputed), the quota
\* is used up again, no caller is inside acquire() and another one has called it
C1_Witness ==
    /\ d_lock = 0
    /\ requests_made = d_max_requests
    /\ d_granted = d_max_requests
    /\ \E t \in Callers : tpc[t] = "d_enter"
    /\ reset_time > DayTicks + MaxTzOffset

\* C2: tokens is never negative and never above max_requests, in particular each
\* time RateLimiter.acquire() returns.
C2_TokensInRange == 0 <= tokens /\ tokens <= max_requests * OneToken

\* C2: acquire() has returned more often within one window than the bucket holds
\* tokens, so a caller waited for its token, and the bucket is empty
C2_Witness ==
    /\ b_lock = 0
    /\ tokens = 0
    /\ Len(RecentGrants(grant_log, now)) > max_requests

\* C3: in any interval of length time_window at most max_requests calls of
\* RateLimiter.acquire() return.
C3_AtMostNPerWindow == Len(RecentGrants(grant_log, now)) <= max_requests

\* C6: the map built with no skip override holds no skip key, whatever the
\* query's own skip.
C6_NoSkipWithoutOverride ==
    (bp_out # None /\ Val(bp_args).skip = None) => "skip" \notin DOMAIN Val(bp_out)


\* C4: api_search ends by returning a QueryResult or by raising the error of a
\* fetch, and in no other way.
C4_ReturnsOrRaisesFetchError == pc = "done" => outcome \in {"returned", "raised"}

\* C5: for a positive limit the QueryResult never holds more records than the limit.
C5_AtMostLimitRecords ==
    (pc = "done" /\ outcome = "returned" /\ AskedLimit(query) > 0)
        => result.nrecords <= AskedLimit(query)

\* the run of C7: unlimited, sorted, no initial skip, a service that holds 30000
\* records and has answered faithfully so far (stable total, full pages, and a
\* next link on every cursor page)
C7Case ==
    /\ query.limit = Some(UnlimitedSentinel)
    /\ StrTruthy(query.sort)
    /\ ~IntTruthy(query.skip)
    /\ svc_total = 30000
    /\ svc_faithful

C8Case ==
    /\ ~IntTruthy(query.skip)
    /\ 0 < svc_total /\ svc_total < OffsetCeiling
    /\ (AskedLimit(query) = UnlimitedSentinel \/ AskedLimit(query) >= svc_total)
    /\ svc_faithful

\* ceil(T / 1000)
PagesOf(total) == (total + PageMax - 1) \div PageMax

\* the limit C8 gives the k-th fetch: 1000 for a full page, T mod 1000 for the last
\* partial one
C8Limit(k) == IF k * PageMax <= svc_total THEN PageMax ELSE svc_total % PageMax

\* a request is built and about to be sent, or being sent
RequestPending == pc \in {"off_minute", "off_day", "off_fetch", "cur_minute", "cur_day", "cur_fetch"}

\* C8 as stated: the run issues exactly ceil(T/1000) fetches, every one with limit
\* 1000 for a full page and T mod 1000 for the last partial one, and none after
\* T records are accumulated.
C8_LimitsAsStated ==
    C8Case =>
        /\ RequestPending => (RequestLimit(params) = C8Limit(nfetch + 1) /\ nresults < svc_total)
        /\ pc = "done" => nfetch = PagesOf(svc_total)

\* C8 as amended: the first fetch, issued before the total is known, asks for
\* min(limit, 1000); every later fetch asks for 1000 for a full page and T mod
\* 1000 for the last partial one; there are exactly ceil(T/1000) fetches, none
\* after T records are accumulated, and the T records are returned.
C8_LimitsAmended ==
    C8Case =>
        /\ RequestPending =>
              /\ mode = "offset"
              /\ nresults < svc_total
              /\ RequestLimit(params) =
                    IF nfetch = 0
                    THEN (IF AskedLimit(query) = UnlimitedSentinel THEN PageMax
                          ELSE Min2(AskedLimit(query), PageMax))
                    ELSE C8Limit(nfetch + 1)
        /\ pc = "done" =>
              (nfetch = PagesOf(svc_total) /\ outcome = "returned"
               /\ result.nrecords = svc_total)

\* C8: such a run has ended after a full page and a partial one
C8_Witness ==
    C8Case /\ pc = "done" /\ nfetch = 2 /\ svc_total = 1500 /\ batch_size = 500

\* the run of C9: more than 25000 records or all of them asked for, no sort, the
\* offset mode over at the ceiling with records still wanted, and a dataset larger
\* than what was retrieved
C9Case ==
    /\ (AskedLimit(query) = UnlimitedSentinel \/ AskedLimit(query) > OffsetCeiling)
    /\ ~StrTruthy(query.sort)
    /\ Phase2Reached(remaining, current_skip)
    /\ IF IsNone(total_available) THEN nresults < svc_total
       ELSE nresults < Val(total_available)

\* C9: such a run sends no cursor-mode request, logs the warning and returns the
\* records of the offset mode; it raises nothing.
C9_DegradesWithoutError ==
    (C9Case /\ pc = "done") =>
        /\ outcome = "returned"
        /\ warned
        /\ mode = "offset"
        /\ result.nrecords = nresults

\* C10: once a page with no documents has come back, in either mode, no further
\* request is sent, nothing more is accumulated, and the run returns the records
\* it held at that point.
C10_EmptyPageEndsRun ==
    empty_at # None =>
        /\ nfetch = Val(empty_at)[1]
        /\ nresults = Val(empty_at)[2]
        /\ pc \in {"phase2", "return", "done"}
        /\ pc = "done" => (outcome = "returned" /\ result.nrecords = Val(empty_at)[2])

\* C10: a cursor-mode page came back empty while records were still wanted and the
\* total was not reached, and the run has returned what it held
C10_Witness ==
    /\ empty_at # None
    /\ mode = "cursor"
    /\ pc = "done"
    /\ RemPositive(remaining)
    /\ nresults > 0
    /\ nresults < Val(total_available)


\* C11: once a fetch has failed, in either mode and after any number of pages, the
\* run is over with that error raised: the failed fetch is the last request sent,
\* and no QueryResult exists.
C11_FetchErrorEndsRun ==
    failed_at # None =>
        /\ pc = "done"
        /\ outcome = "raised"
        /\ result = None
        /\ nfetch = Val(failed_at)

\* C11: a cursor-mode fetch failed after pages of both modes had been accumulated
C11_Witness ==
    /\ failed_at # None
    /\ mode = "cursor"
    /\ Val(failed_at) > 26
    /\ nresults > OffsetCeiling
    /\ pc = "done"


\* C12: no step of a run, the _build_params calls of lines 299 and 348 included,
\* changes the caller's query, whether the run returns or raises, and the
\* QueryResult carries that same query.
C12_QueryUnchanged ==
    /\ [](result # None => result.query = query)
    /\ [][query' = query]_vars

\* C12: a run that paged beyond the query's own skip and limit has returned
C12_Witness ==
    /\ pc = "done"
    /\ outcome = "returned"
    /\ query.skip = Some(500)
    /\ query.limit = Some(1500)
    /\ current_skip > 500
    /\ "skip" \in DOMAIN params /\ params["skip"] # 500
    /\ result.query = query


\* C13: a caller of DailyQuotaLimiter.acquire() that finds k = max_requests slots
\* used sleeps until reset_time and counts its own slot only from a counter below
\* the cap; when its sleep ends the time has reached reset_time, requests_made is
\* set to 0 and reset_time is recomputed, and only then is its slot counted.
C13_BlocksUntilReset ==
    /\ [](\A t \in Callers :
            /\ tpc[t] = "d_sleep" =>
                  (d_granted = d_max_requests /\ requests_made = d_max_requests
                   /\ t_wake[t] = reset_time)
            /\ tpc[t] = "d_incr" => requests_made < d_max_requests)
    /\ [][\A t \in Callers :
            /\ (tpc[t] = "d_sleep" /\ tpc'[t] # "d_sleep") =>
                  /\ now >= reset_time
                  /\ requests_made' = 0
                  /\ reset_time' = calculate_next_midnight(now)
                  /\ tpc'[t] = "d_incr"
            /\ (tpc[t] = "d_incr" /\ tpc'[t] # "d_incr") =>
                  /\ requests_made' = requests_made + 1
                  /\ tpc'[t] = "idle"]_vars

\* C13: with the largest cap, the call after the last slot of the window sleeps
\* and the time has reached reset_time
C13_Witness ==
    /\ d_max_requests = MaxDailyCap
    /\ \E t \in Callers : tpc[t] = "d_sleep" /\ now = reset_time /\ d_lock = t
    /\ d_granted = MaxDailyCap


\* the first UTC midnight strictly after time t (the epoch is a UTC midnight)
NextUtcMidnight(t) == ((t \div DayTicks) + 1) * DayTicks

\* C14: whenever no caller is inside DailyQuotaLimiter.acquire() (after the
\* construction, before and after every call, whatever time has passed and
\* whatever the host's zone), reset_time is the first UTC midnight after now.
C14_ResetIsNextUtcMidnight == d_lock = 0 => reset_time = NextUtcMidnight(now)


\* a caller is between taking and releasing the lock of RateLimiter.acquire()
InBucket(t) == tpc[t] \in {"b_refill", "b_sleep", "b_consume"}

\* C15: at most one caller at a time is inside the refill, the wait and the
\* decrement of RateLimiter.acquire(), and it holds the lock; a caller about to
\* consume finds a whole token, and its return takes exactly that token, leaving
\* tokens >= 0, so no two callers proceed on the same token.
C15_AcquireAtomic ==
    /\ [](/\ \A t1, t2 \in Callers : (InBucket(t1) /\ InBucket(t2)) => t1 = t2
          /\ \A t \in Callers : InBucket(t) <=> b_lock = t
          /\ \A t \in Callers : tpc[t] = "b_consume" => tokens >= OneToken)
    /\ [][\A t \in Callers :
            (tpc[t] = "b_consume" /\ tpc'[t] = "idle") =>
                /\ tokens' = tokens - OneToken
                /\ tokens' >= 0
                /\ \A u \in Callers \ {t} : tpc'[u] = tpc[u] /\ ~InBucket(u)]_vars

\* C15: a caller that waited for its token is about to consume it, the bucket
\* holds exactly that token, and another caller waits for the lock
C15_Witness ==
    \E t1, t2 \in Callers :
        /\ t1 # t2
        /\ tpc[t1] = "b_consume"
        /\ tokens = OneToken
        /\ last_update = now
        /\ Len(RecentGrants(grant_log, now)) >= max_requests
        /\ tpc[t2] = "b_enter"


\* C16: a request is about to be sent, in either mode, only when since the last
\* fetch (or the start of the run) exactly one RateLimiter.acquire() and then
\* exactly one DailyQuotaLimiter.acquire() have returned; after a page is
\* processed nothing is acquired until the next request is built, and no fetch
\* is made without both.
C16_BothLimitersBeforeFetch ==
    /\ [](/\ pc \in {"off_fetch", "cur_fetch"} => since_fetch = <<"minute", "day">>
          /\ pc \in {"off_day", "cur_day"} => since_fetch = <<"minute">>
          /\ pc \notin {"off_fetch", "cur_fetch", "off_day", "cur_day"} => since_fetch = <<>>)
    /\ [][nfetch' # nfetch =>
            (since_fetch = <<"minute", "day">> /\ since_fetch' = <<>>)]_vars

\* C16: a cursor-mode request is about to be sent, after the pages of the offset
\* mode, and both limiters were acquired for it
C16_Witness ==
    /\ pc = "cur_fetch"
    /\ nfetch > 25
    /\ since_fetch = <<"minute", "day">>
    /\ requests_made >= 1


\* C17: with several runs on one client, the requests sent by all of them since
\* the last reset of the shared daily counter are at most max_requests_per_day.
C17_SharedQuotaBoundsFetches == d_fetched <= d_max_requests


\* C18: every call of acquire(), on either limiter and by any caller, returns
\* in the end, and no call ends with an error.
C18_AcquireReturns ==
    /\ [](\A t \in Callers : tpc[t] # "d_error")
    /\ \A t \in Callers : (tpc[t] # "idle") ~> (tpc[t] = "idle")

\* C18: every call has returned, the last ones after the daily counter was used
\* up and a caller slept until its reset, and the bucket was used as well
C18_Witness ==
    /\ \A t \in Callers : tpc[t] = "idle"
    /\ now > LastCall
    /\ reset_time > DayTicks + MaxTzOffset
    /\ requests_made >= 1
    /\ grant_log # <<>>


\* C19: while no time has elapsed since a RateLimiter of capacity C was created,
\* a call is suspended only after C calls have returned, and then until at least
\* time_window / C later; before that time no more than C calls return.
C19_BurstThenWait ==
    /\ now = b_created =>
          \A t \in Callers : tpc[t] = "b_sleep" =>
              /\ Len(grant_log) = max_requests
              /\ t_wake[t] >= now + time_window \div max_requests
    /\ now < b_created + time_window \div max_requests =>
          Len(grant_log) <= max_requests

\* C19: C calls returned at the time of creation, the next call was suspended and
\* has returned time_window / C later
C19_Witness ==
    /\ max_requests = MaxCapacity
    /\ Len(grant_log) = max_requests + 1
    /\ \A i \in 1..max_requests : grant_log[i] = b_created
    /\ grant_log[max_requests + 1] = b_created + time_window \div max_requests
    /\ now = b_created + time_window \div max_requests


Unlimited == AskedLimit(query) = UnlimitedSentinel

\* the breaks that end the paging of a run
Exhaustions == {"empty", "partial", "total", "nolink", "badlink"}

\* C21: every run whose calls return ends after finitely many requests: each
\* page after which the offset loop goes on moves current_skip up, below 25000,
\* and each page after which the cursor loop goes on adds records, below the
\* fixed total_available.  In a run asked for every record, remaining stays
\* infinite, and unless a request failed the run ends by an empty page, a
\* partial page, len(all_results) >= total_available, a missing next link, or
\* the warning that the query has no sort.
C21_TerminatesByExhaustion ==
    /\ <>(pc = "done")
    /\ [][(nfetch' # nfetch /\ pc' = "offset_loop") =>
            (current_skip < current_skip' /\ current_skip < OffsetCeiling)]_vars
    /\ [][(nfetch' # nfetch /\ pc' = "cursor_loop") =>
            /\ nresults < nresults'
            /\ nresults' < Val(total_available)
            /\ total_available' = total_available]_vars
    /\ [](Unlimited /\ pc # "idle" => remaining = Inf)
    /\ []((Unlimited /\ pc \in {"return", "done"} /\ outcome # "raised") =>
            stop \in Exhaustions \cup {"nosort"})


\* the pages whose documents a list holds
PagesHeld(rs) == UNION {rs[i].from .. rs[i].to : i \in DOMAIN rs}

\* the list holds its pages in the order of the requests, each page once
InFetchOrder(rs) ==
    /\ \A i \in DOMAIN rs : rs[i].from <= rs[i].to
    /\ \A i \in DOMAIN rs : i > 1 => rs[i - 1].to < rs[i].from

\* C22: the documents a run holds are, at every moment, the documents of the
\* pages the service has answered with, page after page in the order of the
\* requests; the QueryResult returned carries exactly these documents, and its
\* total_results is the total reported by the latest offset page, or 0 when no
\* page was fetched or that page reported none.
C22_RecordsAreThePagesInOrder ==
    /\ InFetchOrder(all_results)
    /\ PagesHeld(all_results) = served
    /\ (pc = "done" /\ outcome = "returned") =>
           /\ InFetchOrder(result.records)
           /\ PagesHeld(result.records) = served
           /\ result.total_results =
                  (IF last_total = None \/ Val(last_total) = None THEN 0
                   ELSE Val(Val(last_total)))

\* C22: a run has returned the pages of both modes, 25 of the offset mode and at
\* least two of the cursor mode, the last one shorter than asked
C22_Witness ==
    /\ pc = "done"
    /\ outcome = "returned"
    /\ mode = "cursor"
    /\ nfetch >= 27
    /\ result.records = <<[from |-> 1, to |-> nfetch]>>
    /\ result.nrecords = 26500
    /\ result.total_results = 30000


\* the total a page reports, 0 when its metadata carries none
Reported(pt) == IF Val(pt) = None THEN Some(0) ELSE Val(pt)

\* a page has just been handled whose documents reached the test
\* len(all_results) >= total_available of its loop
TotalTested ==
    /\ nfetch' # nfetch
    /\ outcome' # "raised"
    /\ nresults' > nresults
    /\ mode = "offset" => nresults' - nresults >= batch_size

\* C23: after every page fetched, of the offset mode or of the cursor mode,
\* total_available is the total that page reported, and the test
\* len(all_results) >= total_available after the page is made with that total.
C23_TotalOfEveryPage ==
    /\ [](page_total # None => total_available = Reported(page_total))
    /\ [][TotalTested =>
            (stop' = "total" <=> nresults' >= Val(Reported(page_total')))]_vars

\* C23 as amended: after every page of the offset mode total_available is the
\* total that page reported and the test after the page is made with it; a page
\* of the cursor mode leaves total_available as the last page of the offset mode
\* set it, whatever total the page reports, and the test after it is made with
\* that older value.
C23_TotalOfEveryOffsetPage ==
    /\ []((mode = "offset" /\ page_total # None) =>
            total_available = Reported(page_total))
    /\ [][(TotalTested /\ mode = "offset") =>
            (stop' = "total" <=> nresults' >= Val(Reported(page_total')))]_vars
    /\ [][mode = "cursor" => total_available' = total_available]_vars
    /\ [][(TotalTested /\ mode = "cursor") =>
            (stop' = "total" <=> nresults' >= Val(total_available))]_vars

\* C23: a page of the cursor mode reported a total that the documents held
\* exceed, total_available is still the total of the offset mode, and the
\* cursor loop goes on
C23_Witness ==
    /\ mode = "cursor"
    /\ pc = "cursor_loop"
    /\ nfetch > 25
    /\ page_total = Some(Some(500))
    /\ total_available = Some(30000)
    /\ nresults > 25000
    /\ stop = "none"


\* the records of the dataset not yet seen at the current offset
UnseenAt(total, skip) == Val(total) - skip

\* the batch size of the next offset request as C24 states it
StatedBatch ==
    IF IsNone(total_available) THEN RemMin(remaining, PageMax)
    ELSE Min2(RemMin(remaining, PageMax), UnseenAt(total_available, current_skip))

\* C24: every request of the offset mode, whatever the initial skip, asks for
\* min(remaining, 1000) documents while total_available is unknown and for
\* min(remaining, 1000, total_available - current_skip) once it is known; when
\* that size is <= 0 the loop is left and no request is made.
C24_BatchSizeBoundedByUnseen ==
    /\ [](pc \in {"off_minute", "off_day", "off_fetch"} =>
            /\ batch_size = StatedBatch
            /\ RequestLimit(params) = batch_size)
    /\ [][(pc = "offset_loop" /\ OffsetGuard(remaining, current_skip)
            /\ ~IsNone(total_available) /\ StatedBatch <= 0) =>
              pc' = "phase2"]_vars


\* a page of the offset mode has just come back with documents, fewer than asked
PartialPage ==
    /\ nfetch' # nfetch
    /\ mode = "offset"
    /\ outcome' # "raised"
    /\ nresults < nresults'
    /\ nresults' - nresults < batch_size

\* C25: when a page of the offset mode holds fewer documents than the batch
\* size asked, its documents are appended and the run makes no request after
\* it, by skip or by cursor, whatever total the page reports: it returns the
\* documents held, that page's included.
C25_PartialPageEndsRun ==
    /\ [][PartialPage => (stop' = "partial" /\ nfetch' \in PagesHeld(all_results'))]_vars
    /\ [][stop = "partial" => (stop' = "partial" /\ nfetch' = nfetch)]_vars
    /\ [](stop = "partial" =>
            /\ pc \in {"phase2", "return", "done"}
            /\ mode = "offset"
            /\ outcome \in {"none", "returned"}
            /\ pc = "done" => nfetch \in PagesHeld(result.records))

\* C25: a run has returned after a partial second page, with fewer documents
\* than the total that page reported and fewer than asked
C25_Witness ==
    /\ pc = "done"
    /\ outcome = "returned"
    /\ stop = "partial"
    /\ nfetch = 2
    /\ result.nrecords = 1500
    /\ total_available = Some(30000)
    /\ remaining = Inf


\* the state in which C26 lets the cursor mode start or go on
CursorDue ==
    /\ current_skip >= OffsetCeiling
    /\ RemPositive(remaining)
    /\ ~IsNone(total_available)
    /\ nresults < Val(total_available)
    /\ StrTruthy(query.sort)

\* a request of the cursor mode is being prepared or sent
CursorRequest == pc \in {"cur_minute", "cur_day", "cur_fetch"}

\* C26: a request of the cursor mode is made only when the offset mode has
\* ended with current_skip >= 25000, remaining > 0, fewer documents held than
\* total_available, and a sort in the query; from every other state at the end
\* of the offset mode the run goes to its return and makes no cursor request.
C26_CursorOnlyWhenDue ==
    /\ [](CursorRequest => (CursorDue /\ mode = "cursor"))
    /\ [][(pc = "phase2" /\ ~CursorDue) => (pc' = "return" /\ mode' = "offset")]_vars
    /\ []((pc \in {"return", "done"} /\ mode = "offset") =>
            (switches = 0 /\ outcome \in {"none", "returned", "raised"}))


\* C27: the parameters built at the switch to the cursor mode hold no skip and
\* ask for min(remaining, 1000) documents, whatever the skip of the query, and
\* they are the parameters of the first request of the cursor mode.
C27_FirstCursorRequestHasNoSkip ==
    /\ [][(pc = "phase2" /\ pc' = "cursor_loop") =>
            /\ "skip" \notin DOMAIN params'
            /\ RequestLimit(params') = RemMin(remaining, PageMax)]_vars
    /\ [][(pc \in {"cursor_loop", "cur_minute", "cur_day"}) =>
            (params' = params /\ remaining' = remaining)]_vars


\* the breaks taken for want of a next link: no rel="next" in the header, or
\* one the pattern of line 386 does not match
NoNextLink == {"nolink", "badlink"}

\* a page of the cursor mode has just come back with documents, and they leave
\* len(all_results) < total_available
PageBelowTotal ==
    /\ nfetch' # nfetch
    /\ mode = "cursor"
    /\ outcome' # "raised"
    /\ nresults < nresults'
    /\ nresults' < Val(total_available)

\* C28: after a page of the cursor mode that has documents and leaves fewer
\* held than total_available, the loop goes on only when the Link header of the
\* response has a rel="next" entry; without one the page is appended, no
\* request follows, and the run returns the documents held, the page's included.
C28_ContinuesOnlyWithNextLink ==
    /\ [][(PageBelowTotal /\ pc' = "cursor_loop") => Val(page_link').rel = "next"]_vars
    /\ [][(PageBelowTotal /\ Val(page_link').rel # "next") =>
            /\ stop' \in NoNextLink
            /\ pc' = "return"
            /\ nfetch' \in PagesHeld(all_results')]_vars
    /\ [][(stop \in NoNextLink) => (stop' = stop /\ nfetch' = nfetch)]_vars
    /\ []((stop \in NoNextLink /\ pc = "done") =>
            /\ outcome = "returned"
            /\ result.records = all_results
            /\ nfetch \in PagesHeld(result.records))

\* C28: a run has returned after a second page of the cursor mode that had no
\* next link, with fewer documents than total_available and than asked
C28_Witness ==
    /\ pc = "done"
    /\ outcome = "returned"
    /\ mode = "cursor"
    /\ stop = "nolink"
    /\ page_link = Some(NoLink)
    /\ nfetch = 27
    /\ result.nrecords = 27000
    /\ total_available = Some(30000)
    /\ remaining = Inf


\* the keys of a query string
KeysOf(qs) == {qs[i].k : i \in DOMAIN qs}

\* the map holds each key of the query string with its value, and no other key
ExactMapOf(p, qs) ==
    /\ DOMAIN p = KeysOf(qs)
    /\ \A i \in DOMAIN qs : ~IsNone(qs[i].v) => p[qs[i].k] = Val(qs[i].v)

PageWithoutTotal ==
    /\ nfetch' # nfetch
    /\ mode = "offset"
    /\ outcome' # "raised"
    /\ last_total' = Some(None)

\* C30: when a page of the offset mode comes back without meta.results.total,
\* total_available becomes 0; if the page has documents they are appended and
\* the loop is left at once; no request follows the page, and the QueryResult
\* returned has total_results = 0.
C30_MissingTotalIsZero ==
    /\ [][PageWithoutTotal =>
            /\ total_available' = Some(0)
            /\ pc' = "phase2"
            /\ nresults < nresults' =>
                   (nfetch' \in PagesHeld(all_results') /\ stop' \in {"partial", "total"})]_vars
    /\ [][last_total = Some(None) => (nfetch' = nfetch /\ last_total' = last_total)]_vars
    /\ [](last_total = Some(None) =>
            /\ total_available = Some(0)
            /\ pc \in {"phase2", "return", "done"}
            /\ pc = "done" => (outcome = "returned" /\ result.total_results = 0
                               /\ result.records = all_results))

\* C30: a run has returned after a full second page that reported no total: it
\* holds the documents of both pages and its total_results is 0
C30_Witness ==
    /\ pc = "done"
    /\ outcome = "returned"
    /\ last_total = Some(None)
    /\ first_total = Some(30000)
    /\ stop = "total"
    /\ nfetch = 2
    /\ result.records = <<[from |-> 1, to |-> 2]>>
    /\ result.nrecords = 2000
    /\ result.total_results = 0


\* the characters that are whitespace
Whitespace == {" ", "\t", "\n", "\r"}

\* a text without the characters of a set
Without(s, chars) == SelectSeq(s, LAMBDA c : c \notin chars)

\* a text with each space replaced by '+'
Plussed(s) == [i \in 1..Len(s) |-> IF s[i] = " " THEN "+" ELSE s[i]]

\* what C31 states of the map p built for query q with the overrides a, the
\* sort being the query's without the characters of a set
BuiltAsStated(p, q, a, chars) ==
    LET eff_limit == IF a.limit # None THEN a.limit ELSE q.limit
        eff_skip == IF a.skip # None THEN a.skip ELSE q.skip
    IN  /\ DOMAIN p \subseteq {"search", "sort", "count", "limit", "skip"}
        /\ "limit" \in DOMAIN p <=> (eff_limit # None /\ Val(eff_limit) # 1000)
        /\ "limit" \in DOMAIN p => p["limit"] = Val(eff_limit)
        /\ "skip" \in DOMAIN p <=> (eff_skip # None /\ Val(eff_skip) > 0)
        /\ "skip" \in DOMAIN p => p["skip"] = Val(eff_skip)
        /\ "search" \in DOMAIN p <=> (q.search # None /\ Val(q.search) # <<>>)
        /\ "search" \in DOMAIN p => p["search"] = Plussed(Val(q.search))
        /\ "sort" \in DOMAIN p <=> (q.sort # None /\ Val(q.sort) # <<>>)
        /\ "sort" \in DOMAIN p => p["sort"] = Without(Val(q.sort), chars)
        /\ "count" \in DOMAIN p <=> (q.count # None /\ Val(q.count) # <<>>)

\* C31: the map _build_params yields has a limit key iff the effective limit is
\* not 1000, a skip key iff the effective skip is > 0, each with that value,
\* search with each space replaced by '+', sort with its whitespace removed, and
\* no key for an absent field.
C31_BuildParamsAsStated ==
    bp_out # None => BuiltAsStated(Val(bp_out), query, Val(bp_args), Whitespace)

\* C31 as amended: the same, with sort having its space characters removed and
\* every other character, a tab or another whitespace included, kept.
C31_BuildParamsSortWithoutSpaces ==
    bp_out # None => BuiltAsStated(Val(bp_out), query, Val(bp_args), {" "})

\* C31: a map was built from a query whose sort holds a space and a tab, with
\* a limit override and the query's own skip: the tab is still in the sort
C31_Witness ==
    /\ bp_out # None
    /\ query.sort = Some(SortTabbed)
    /\ query.search = Some(SearchText)
    /\ query.skip = Some(500)
    /\ Val(bp_args) = [limit |-> Some(500), skip |-> None]
    /\ Val(bp_out)["sort"] = <<"d", "e", "\t", ":", "a", "s", "c">>
    /\ Val(bp_out)["limit"] = 500
    /\ Val(bp_out)["skip"] = 500
    /\ Val(bp_out)["search"] = <<"a", ":", "b", "+", "c">>


\* the positions of a caller inside acquire() of the bucket and of the daily
\* counter, from the call to the return
BucketPcs == {"b_enter", "b_refill", "b_sleep", "b_consume"}
DailyPcs == {"d_enter", "d_check", "d_sleep", "d_incr"}

\* caller u, inside DailyQuotaLimiter.acquire, can take its next step as far as
\* the daily counter's own lock and its own sleep allow
DailyStepFree(u) ==
    /\ (tpc[u] = "d_enter" /\ d_lock = 0) => ENABLED DailyLock(u)
    /\ tpc[u] = "d_check" => ENABLED DailyCheck(u)
    /\ (tpc[u] = "d_sleep" /\ now >= t_wake[u]) => ENABLED DailyWake(u)
    /\ tpc[u] = "d_incr" => ENABLED DailyIncr(u)

\* the same for caller u inside RateLimiter.acquire
BucketStepFree(u) ==
    /\ (tpc[u] = "b_enter" /\ b_lock = 0) => ENABLED BucketLock(u)
    /\ tpc[u] = "b_refill" => ENABLED BucketRefill(u)
    /\ (tpc[u] = "b_sleep" /\ now >= t_wake[u]) => ENABLED BucketWake(u)
    /\ tpc[u] = "b_consume" => ENABLED BucketConsume(u)

\* C32: a caller asleep inside acquire() holds that limiter's lock, and from the
\* moment a caller has the lock until it has consumed its token or slot no other
\* caller's acquire() on that limiter returns; but while a caller sleeps in one
\* limiter, close() can be called and every step of acquire() on the other
\* limiter can be taken.
C32_SleepBlocksOwnLimiterOnly ==
    /\ [](\A t \in Callers :
            /\ tpc[t] = "b_sleep" => b_lock = t
            /\ tpc[t] = "d_sleep" => d_lock = t)
    /\ [][\A u \in Callers :
            /\ (tpc[u] \in BucketPcs /\ tpc'[u] = "idle") => b_lock = u
            /\ (tpc[u] \in DailyPcs /\ tpc'[u] = "idle") => d_lock = u
            /\ (b_lock = u /\ b_lock' # u) => (tpc[u] = "b_consume" /\ tpc'[u] = "idle")
            /\ (d_lock = u /\ d_lock' # u) => (tpc[u] = "d_incr" /\ tpc'[u] = "idle")]_vars
    /\ [](\A t \in Callers :
            /\ (tpc[t] \in {"b_sleep", "d_sleep"} /\ ~closed) => ENABLED Close
            /\ tpc[t] = "b_sleep" => \A u \in Callers : DailyStepFree(u)
            /\ tpc[t] = "d_sleep" => \A u \in Callers : BucketStepFree(u))

\* C32: the first caller sleeps inside RateLimiter.acquire while the second is
\* inside DailyQuotaLimiter.acquire with its lock, and the client has been closed
C32_Witness ==
    /\ tpc[1] = "b_sleep"
    /\ now < t_wake[1]
    /\ b_lock = 1
    /\ tpc[2] = "d_incr"
    /\ d_lock = 2
    /\ closed


\* a request of the offset mode is being prepared or sent
OffsetRequest == pc \in {"off_minute", "off_day", "off_fetch"}

\* C33: at the start of every iteration of the offset loop the documents held
\* number current_skip - user_skip, and total_available, once known, is above
\* that number; every request of the offset mode asks for a skip from user_skip
\* to below 25000 and for 1 to 1000 documents; the break for batch_size <= 0 is
\* never taken.
C33_OffsetLoopInvariant ==
    /\ pc = "offset_loop" =>
           /\ nresults = current_skip - user_skip
           /\ total_available # None => Val(total_available) > nresults
    /\ OffsetRequest =>
           /\ user_skip <= current_skip
           /\ current_skip < OffsetCeiling
           /\ ReqPos(params) = current_skip
           /\ RequestLimit(params) = batch_size
           /\ 1 <= batch_size
           /\ batch_size <= PageMax
    /\ stop # "batch"

\* C33: the second request of a run that started at skip 500 is about to be
\* sent: 1000 documents are held, the total is 1500, and 500 are asked
C33_Witness ==
    /\ pc = "off_fetch"
    /\ nfetch = 1
    /\ user_skip = 500
    /\ current_skip = 1500
    /\ nresults = 1000
    /\ total_available = Some(1500)
    /\ batch_size = 500
    /\ params["skip"] = 1500
    /\ params["limit"] = 500


\* a page of at least one document is added to the records by this step, by a
\* service that has answered every request with the records at the position asked
PageAdded == svc_faithful' /\ nresults' > nresults

\* C34: in one run against a static sorted dataset no position is fetched twice.
\* The offset pages hold the positions user_skip .. current_skip - 1; a request
\* with neither skip nor search_after is answered from position 0.  Every page
\* added begins past every position held: an offset page at user_skip plus the
\* number held, a cursor page at or past current_skip, and the request that
\* follows a cursor page past that page.
C34_NoPositionFetchedTwice ==
    [][PageAdded =>
          /\ mode = "offset" => ReqPos(params) >= user_skip + nresults
          /\ mode = "cursor" =>
                 /\ ReqPos(params) >= current_skip
                 /\ pc' = "cursor_loop" =>
                        ReqPos(params') >= ReqPos(params) + (nresults' - nresults)]_vars


\* the offset loop was left by one of its breaks after a page
OffsetStopped == mode = "offset" /\ stop \in {"empty", "partial", "total"}

\* C35: when the offset loop is left by a break (an empty page, a partial page,
\* everything retrieved) current_skip is below 25000 and the run does not go on
\* to the cursor loop; the cursor loop is entered only from line 340, after the
\* guard of the offset loop failed with current_skip >= 25000.
C35_BreakNeverLeadsToCursor ==
    /\ [](OffsetStopped => (current_skip < OffsetCeiling /\ switches = 0))
    /\ [][OffsetStopped => mode' = "offset"]_vars
    /\ [][(mode = "offset" /\ mode' = "cursor") =>
             /\ pc = "phase2"
             /\ stop = "ceiling"
             /\ ~OffsetGuard(remaining, current_skip)
             /\ current_skip >= OffsetCeiling]_vars

\* C35: an unlimited sorted run from skip 24500 got a full page of 1000 with a
\* total of 500, left the offset loop by the break of line 331, and returned
C35_Witness ==
    /\ pc = "done"
    /\ outcome = "returned"
    /\ stop = "total"
    /\ mode = "offset"
    /\ query.limit = Some(UnlimitedSentinel)
    /\ StrTruthy(query.sort)
    /\ user_skip = 24500
    /\ current_skip = 24500
    /\ nresults = 1000


\* the steps of a run: a request is sent, acquire() of the token bucket returns,
\* acquire() of the daily quota returns
FetchStep == nfetch' = nfetch + 1
MinuteStep == pc \in {"off_minute", "cur_minute"} /\ pc' # pc
DayStep == pc \in {"off_day", "cur_day"} /\ pc' # pc

\* an earlier api_search call on the client raised the error of a fetch
RaisedBefore == \E i \in 1..Len(earlier) : earlier[i] = "raised"

\* the tokens the bucket holds when the call takes its own
TokensHad == Refilled(tokens, now - last_update)

\* C36: every request, failing or not, is sent after exactly one acquire() of
\* each limiter; an acquire() of the token bucket takes exactly one token and one
\* of the daily quota counts exactly one slot; no other step, the failure of a
\* fetch and the start of the next call included, changes tokens or requests_made;
\* when a call has raised, the limiters are charged for its requests and in range
\* (0 <= tokens <= max_requests, requests_made <= max_requests of the day), the
\* locks are free, and in the calls that follow every acquire() returns.
C36_FetchesChargeBothLimiters ==
    /\ [](/\ 0 <= tokens
          /\ tokens <= max_requests * OneToken
          /\ 0 <= requests_made
          /\ requests_made <= d_max_requests
          /\ b_lock = 0
          /\ d_lock = 0)
    /\ [][FetchStep => /\ since_fetch = <<"minute", "day">>
                       /\ tokens' = tokens
                       /\ requests_made' = requests_made]_vars
    /\ [][MinuteStep =>
             tokens' = (IF TokensHad < OneToken THEN OneToken ELSE TokensHad) - OneToken]_vars
    /\ [][DayStep => requests_made' \in {requests_made + 1, 1}]_vars
    /\ [][(~MinuteStep) => tokens' = tokens]_vars
    /\ [][(~DayStep) => requests_made' = requests_made]_vars
    /\ []((pc = "done" /\ outcome = "raised") =>
             /\ tokens <= (max_requests - 1) * OneToken
             /\ requests_made >= 1)
    /\ [](RaisedBefore =>
             /\ pc = "idle" => ENABLED ApiSearch
             /\ pc \in {"off_minute", "cur_minute"} => ENABLED RunMinute
             /\ pc \in {"off_day", "cur_day"} => ENABLED RunDay
             /\ pc \in {"off_fetch", "cur_fetch"} => since_fetch = <<"minute", "day">>)

\* C36: after a call that raised, a call of two pages, the second by cursor,
\* has returned
C36_Witness ==
    /\ RaisedBefore
    /\ pc = "done"
    /\ outcome = "returned"
    /\ mode = "cursor"
    /\ nfetch = 2
    /\ result.nrecords = 1500


\* a step of the run of caller t
RunStep(t) ==
    \/ SharedMinute(t)
    \/ BucketLock(t)
    \/ BucketRefill(t)
    \/ BucketWake(t)
    \/ BucketConsume(t)
    \/ SharedDay(t)
    \/ DailyLock(t)
    \/ DailyCheck(t)
    \/ DailyWake(t)
    \/ DailyIncr(t)
    \/ SharedFetch(t)

\* the run of caller t can take a step now, or sleeps and can take one when
\* the time of its wake-up has come
CanProgress(t) == tpc[t] \in {"b_sleep", "d_sleep"} \/ ENABLED RunStep(t)

\* C37: no caller holds the lock of the token bucket and the lock of the daily
\* quota at once: a caller inside or at the door of one limiter does not hold
\* the lock of the other.  The concurrent runs of one client never deadlock on
\* the limiters: in every state some run can take a step now or when time has
\* advanced, and a run that waits for a lock waits for a holder that can.
C37_NoDeadlockOnLimiters ==
    /\ \A t \in Callers :
          /\ ~(b_lock = t /\ d_lock = t)
          /\ tpc[t] \in DailyPcs => b_lock # t
          /\ tpc[t] \in BucketPcs => d_lock # t
          /\ (tpc[t] = "b_enter" /\ b_lock # 0) => CanProgress(b_lock)
          /\ (tpc[t] = "d_enter" /\ d_lock # 0) => CanProgress(d_lock)
    /\ \E t \in Callers : CanProgress(t)

\* C37: one run sleeps in the token bucket and the other in the daily quota,
\* each under its limiter's lock, and neither sleep is over
C37_Witness ==
    /\ tpc[1] = "b_sleep"
    /\ b_lock = 1
    /\ now < t_wake[1]
    /\ tpc[2] = "d_sleep"
    /\ d_lock = 2
    /\ now < t_wake[2]


====
